---- MODULE Spec2Model ----
(***************************************************************************)
(* Model of the continuous hyper-cube environment of gflownet              *)
(* (src/gflownet/envs/cube.py, class ContinuousCube).                      *)
(*                                                                         *)
(* Numbers.  A coordinate, an increment, max_val and min_incr are Python   *)
(* floats.  The model measures them in units of 1e-9 (the epsilon of       *)
(* _step), so 1.0 is One = 10^9 units, and computes sums exactly.  The     *)
(* three non-finite floats are kept apart from the finite ones: PInf       *)
(* (np.inf, the component of the EOS action), NInf and NaN, with the       *)
(* IEEE rules for sums and comparisons (a comparison with NaN is false).   *)
(***************************************************************************)
EXTENDS Integers, Sequences, FiniteSets, TLC

\* ------------------------------------------------------------------ bounds
\* Largest magnitude of a finite coordinate the model follows.
FinMax == 2000000000
\* Largest value of the counter n_actions the model follows.
MaxActions == 3

\* ------------------------------------------------------- program constants
n_dim == 2                 \* Cube.__init__ default n_dim
One == 1000000000          \* the literal 1 of "1 - self.min_incr", in units
step_epsilon == 1          \* epsilon = 1e-9 of _step
source_atol == 1000        \* atol=1e-6 of the isclose call of _step

\* --------------------------------------------------- floats, in 1e-9 units
PInf == FinMax + 1
NInf == 0 - (FinMax + 1)
NaN == FinMax + 2

IsFin(x) == x >= 0 - FinMax /\ x <= FinMax
IsFloat(x) == IsFin(x) \/ x \in {PInf, NInf, NaN}

\* x + y of two floats
FAdd(x, y) ==
  IF x = NaN \/ y = NaN THEN NaN
  ELSE IF x = PInf THEN (IF y = NInf THEN NaN ELSE PInf)
  ELSE IF x = NInf THEN (IF y = PInf THEN NaN ELSE NInf)
  ELSE IF y = PInf THEN PInf
  ELSE IF y = NInf THEN NInf
  ELSE x + y

\* -x of a float
FNeg(x) == IF x = NaN THEN NaN ELSE 0 - x

\* x - y of two floats
FSub(x, y) == FAdd(x, FNeg(y))

\* x <= y, x < y, x > y of two floats: false when either is NaN
FLe(x, y) == x # NaN /\ y # NaN /\ x <= y
FLt(x, y) == x # NaN /\ y # NaN /\ x < y
FGt(x, y) == x # NaN /\ y # NaN /\ x > y

\* The finite sum x + y stays within the magnitude the model follows
\* (written so that no intermediate value leaves the machine integers).
SumFollowed(x, y) ==
  \/ ~IsFin(x)
  \/ ~IsFin(y)
  \/ IF y >= 0 THEN x <= FinMax - y ELSE x >= (0 - FinMax) - y

Dims == 1 .. n_dim

VARIABLES
  max_val,     \* self.max_val
  min_incr,    \* self.min_incr (absolute: min_incr * max_val)
  state,       \* self.state, a list of n_dim floats
  done,        \* self.done
  n_actions,   \* self.n_actions
  n_atoms_compatibility_dict,  \* self.n_atoms_compatibility_dict (SpaceGroup)
  ret,         \* outcome of the last call of step / step_backwards
  mask_call,   \* arguments and result of the last call of a mask method
  call,        \* arguments and result of the last call of another method
  traj         \* the trajectory a caller is running on the environment

\* What the constructor sets and no method changes
config == <<max_val, min_incr, n_atoms_compatibility_dict>>

vars == <<config, state, done, n_actions, ret, mask_call, call, traj>>
env == <<state, done, n_actions>>

\* self.source: position 0 at all dimensions
source == [d \in Dims |-> 0]

\* self.eos of ContinuousCube: np.inf for all dimensions
eos == [d \in Dims |-> PInf]

\* ------------------------------------------------------------ configuration
\* max_val values of the configurations explored: 0.5 and 1.0
MaxVals == {One \div 2, One}
\* min_incr arguments explored, in tenths: 0.1
MinIncrTenths == {1}

\* Cube.__init__: assert max_val > 0; self.min_incr = min_incr * self.max_val
CubeInit(mv, mi10) ==
  /\ mv > 0
  /\ max_val = mv
  /\ min_incr = (mi10 * (mv \div 10))
  /\ n_atoms_compatibility_dict = <<>>

\* GFlowNetEnv.isclose(state, source, atol): every coordinate within atol of 0
isclose(st, target, atol) ==
  \A d \in Dims :
    /\ IsFin(st[d])
    /\ st[d] - target[d] <= atol
    /\ target[d] - st[d] <= atol

NoRet == [op |-> "none", is_eos |-> FALSE, was_done |-> FALSE, outcome |-> "none"]
NoMaskCall == [dir |-> "none", state |-> source, done |-> FALSE,
               mask |-> <<FALSE, FALSE, FALSE>>]

NoCall == [op |-> "none"]
NoTraj == [phase |-> "none", hist |-> <<>>, expected |-> source]

\* Largest number of increments of one round trip the model follows
MaxTrajLen == 2

\* Largest value of n_actions the model follows: MaxActions for arbitrary
\* calls, the length of a round trip or of a sampled trajectory otherwise.
ActionsFollowed ==
  IF traj.phase \in {"none", "sampling"} THEN MaxActions
  ELSE 2 * MaxTrajLen + 2

Init ==
  /\ \E mv \in MaxVals, mi10 \in MinIncrTenths : CubeInit(mv, mi10)
  /\ state = source
  /\ done = FALSE
  /\ n_actions = 0
  /\ ret = NoRet
  /\ mask_call = NoMaskCall
  /\ call = NoCall
  /\ traj = NoTraj

\* ------------------------------------------------------------------ actions
\* Components of the actions passed to step and step_backwards: 0, a value
\* below the snapping tolerance, 0.3, 0.5, a value 2e-9 below zero, np.inf.
ActVals == {0 - 2, 0, 500, 3 * (One \div 10), One \div 2, PInf}
Actions == [Dims -> ActVals]

\* Variant of _step: the increments are added whatever the direction is.
_step_always_adds(st, action, backward) ==
  LET moved == [d \in Dims |-> FAdd(st[d], action[d])]
      snapped == IF isclose(moved, source, source_atol) THEN source ELSE moved
      upper_ok == \A d \in Dims : FLe(snapped[d], max_val + step_epsilon)
      lower_ok == \A d \in Dims : FLe(0 - step_epsilon, snapped[d])
  IN [state |-> snapped, raised |-> ~(upper_ok /\ lower_ok)]

\* ContinuousCube._step: the state is updated in place, snapped to the source
\* when close to it, and only then checked against the bounds of the cube.
\* state: the list self.state holds when _step returns or raises.
_step(st, action, backward) ==
  LET moved == [d \in Dims |->
                  IF backward THEN FSub(st[d], action[d])
                  ELSE FAdd(st[d], action[d])]
      snapped == IF isclose(moved, source, source_atol) THEN source ELSE moved
      upper_ok == \A d \in Dims : FLe(snapped[d], max_val + step_epsilon)
      lower_ok == \A d \in Dims : FLe(0 - step_epsilon, snapped[d])
  IN [state |-> snapped, raised |-> ~(upper_ok /\ lower_ok)]

\* Every coordinate _step computes is one the model follows.
StepFollowed(st, action, backward) ==
  \A d \in Dims :
    SumFollowed(st[d], IF backward THEN FNeg(action[d]) ELSE action[d])

Outcome(raised) == IF raised THEN "raised" ELSE "valid"

\* Variant of step: the EOS action is handled before the test of self.done.
step_eos_first(action) ==
  /\ UNCHANGED <<config, mask_call>>
  /\ IF action = eos
     THEN IF state = source
          THEN /\ ret' = [op |-> "step", is_eos |-> TRUE,
                          was_done |-> done, outcome |-> "raised"]
               /\ UNCHANGED env
          ELSE /\ n_actions < ActionsFollowed
               /\ done' = TRUE
               /\ n_actions' = n_actions + 1
               /\ ret' = [op |-> "step", is_eos |-> TRUE,
                          was_done |-> done, outcome |-> "valid"]
               /\ UNCHANGED state
     ELSE IF done
     THEN /\ ret' = [op |-> "step", is_eos |-> FALSE,
                     was_done |-> TRUE, outcome |-> "invalid"]
          /\ UNCHANGED env
     ELSE /\ n_actions < ActionsFollowed
          /\ StepFollowed(state, action, FALSE)
          /\ n_actions' = n_actions + 1
          /\ LET r == _step(state, action, FALSE)
             IN /\ state' = r.state
                /\ ret' = [op |-> "step", is_eos |-> FALSE,
                           was_done |-> FALSE, outcome |-> Outcome(r.raised)]
          /\ UNCHANGED done

\* Variant of step: EOS is accepted without the assertion on the source.
step_eos_from_source(action) ==
  /\ UNCHANGED <<config, mask_call>>
  /\ IF done
     THEN /\ ret' = [op |-> "step", is_eos |-> action = eos,
                     was_done |-> TRUE, outcome |-> "invalid"]
          /\ UNCHANGED env
     ELSE IF action = eos
     THEN /\ n_actions < ActionsFollowed
          /\ done' = TRUE
          /\ n_actions' = n_actions + 1
          /\ ret' = [op |-> "step", is_eos |-> TRUE,
                     was_done |-> FALSE, outcome |-> "valid"]
          /\ UNCHANGED state
     ELSE /\ n_actions < ActionsFollowed
          /\ StepFollowed(state, action, FALSE)
          /\ n_actions' = n_actions + 1
          /\ LET r == _step(state, action, FALSE)
             IN /\ state' = r.state
                /\ ret' = [op |-> "step", is_eos |-> FALSE,
                           was_done |-> FALSE, outcome |-> Outcome(r.raised)]
          /\ UNCHANGED done

\* ContinuousCube.step(action)
step(action) ==
  /\ UNCHANGED <<config, mask_call>>
  /\ IF done
     THEN \* return self.state, action, False
          /\ ret' = [op |-> "step", is_eos |-> action = eos,
                     was_done |-> TRUE, outcome |-> "invalid"]
          /\ UNCHANGED env
     ELSE IF action = eos
     THEN IF state = source
          THEN \* assert self.state != self.source fails
               /\ ret' = [op |-> "step", is_eos |-> TRUE,
                          was_done |-> FALSE, outcome |-> "raised"]
               /\ UNCHANGED env
          ELSE /\ n_actions < ActionsFollowed
               /\ done' = TRUE
               /\ n_actions' = n_actions + 1
               /\ ret' = [op |-> "step", is_eos |-> TRUE,
                          was_done |-> FALSE, outcome |-> "valid"]
               /\ UNCHANGED state
     ELSE /\ n_actions < ActionsFollowed
          /\ StepFollowed(state, action, FALSE)
          /\ n_actions' = n_actions + 1
          /\ LET r == _step(state, action, FALSE)
             IN /\ state' = r.state
                /\ ret' = [op |-> "step", is_eos |-> FALSE,
                           was_done |-> FALSE, outcome |-> Outcome(r.raised)]
          /\ UNCHANGED done

\* Variant of step_backwards: a done environment undoes EOS whatever the
\* action is (no assertion on the action).
step_backwards_any_undo(action) ==
  /\ UNCHANGED <<config, mask_call>>
  /\ IF done
     THEN /\ n_actions < ActionsFollowed
          /\ done' = FALSE
          /\ n_actions' = n_actions + 1
          /\ ret' = [op |-> "step_backwards", is_eos |-> action = eos,
                     was_done |-> TRUE, outcome |-> "valid"]
          /\ UNCHANGED state
     ELSE IF action = eos
     THEN /\ ret' = [op |-> "step_backwards", is_eos |-> TRUE,
                     was_done |-> FALSE, outcome |-> "raised"]
          /\ UNCHANGED env
     ELSE /\ n_actions < ActionsFollowed
          /\ StepFollowed(state, action, TRUE)
          /\ n_actions' = n_actions + 1
          /\ LET r == _step(state, action, TRUE)
             IN /\ state' = r.state
                /\ ret' = [op |-> "step_backwards", is_eos |-> FALSE,
                           was_done |-> FALSE, outcome |-> Outcome(r.raised)]
          /\ UNCHANGED done

\* ContinuousCube.step_backwards(action)
step_backwards(action) ==
  /\ UNCHANGED <<config, mask_call>>
  /\ IF done
     THEN IF action # eos
          THEN \* assert action == self.eos fails
               /\ ret' = [op |-> "step_backwards", is_eos |-> FALSE,
                          was_done |-> TRUE, outcome |-> "raised"]
               /\ UNCHANGED env
          ELSE /\ n_actions < ActionsFollowed
               /\ done' = FALSE
               /\ n_actions' = n_actions + 1
               /\ ret' = [op |-> "step_backwards", is_eos |-> TRUE,
                          was_done |-> TRUE, outcome |-> "valid"]
               /\ UNCHANGED state
     ELSE IF action = eos
     THEN \* assert action != self.eos fails
          /\ ret' = [op |-> "step_backwards", is_eos |-> TRUE,
                     was_done |-> FALSE, outcome |-> "raised"]
          /\ UNCHANGED env
     ELSE /\ n_actions < ActionsFollowed
          /\ StepFollowed(state, action, TRUE)
          /\ n_actions' = n_actions + 1
          /\ LET r == _step(state, action, TRUE)
             IN /\ state' = r.state
                /\ ret' = [op |-> "step_backwards", is_eos |-> FALSE,
                           was_done |-> FALSE, outcome |-> Outcome(r.raised)]
          /\ UNCHANGED done

Step == \E action \in Actions : step(action) /\ UNCHANGED <<call, traj>>
StepBackwards ==
  \E action \in Actions : step_backwards(action) /\ UNCHANGED <<call, traj>>

Next == Step \/ StepBackwards

Spec == Init /\ [][Next]_vars

TypeOK ==
  /\ max_val \in MaxVals
  /\ DOMAIN state = Dims /\ \A d \in Dims : IsFloat(state[d])
  /\ done \in BOOLEAN
  /\ n_actions \in 0 .. ActionsFollowed

\* ------------------------------------------------------------------- masks
\* Variant of get_mask_invalid_actions_forward: a done state keeps EOS valid.
get_mask_invalid_actions_forward_done_eos(st, dn) ==
  IF dn THEN <<TRUE, TRUE, FALSE>>
  ELSE << \E d \in Dims : FGt(st[d], One - min_incr),
          st # source,
          st = source >>

\* Variant of get_mask_invalid_actions_forward: the two branches of the test
\* against the source are swapped.
get_mask_invalid_actions_forward_swapped(st, dn) ==
  IF dn THEN <<TRUE, TRUE, TRUE>>
  ELSE << \E d \in Dims : FGt(st[d], One - min_incr),
          st = source,
          st # source >>

\* ContinuousCube.get_mask_invalid_actions_forward(state, done)
get_mask_invalid_actions_forward(st, dn) ==
  IF dn THEN <<TRUE, TRUE, TRUE>>
  ELSE << \E d \in Dims : FGt(st[d], One - min_incr),
          st # source,
          st = source >>

\* Variant of get_mask_invalid_actions_backward: a coordinate equal to
\* min_incr already forces back-to-source (<= for <).
get_mask_invalid_actions_backward_le(st, dn) ==
  IF dn THEN <<TRUE, TRUE, FALSE>>
  ELSE IF \E d \in Dims : FLe(st[d], min_incr) THEN <<TRUE, FALSE, TRUE>>
  ELSE <<FALSE, TRUE, TRUE>>

\* Variant of get_mask_invalid_actions_backward: the done branch does not
\* return, so the tests on the coordinates still run.
get_mask_invalid_actions_backward_no_return(st, dn) ==
  IF \E d \in Dims : FLt(st[d], min_incr) THEN <<TRUE, FALSE, ~dn>>
  ELSE <<FALSE, TRUE, ~dn>>

\* Variant of get_mask_invalid_actions_backward: a done state gets the mask
\* of the forward method, every entry True.
get_mask_invalid_actions_backward_done_all(st, dn) ==
  IF dn THEN <<TRUE, TRUE, TRUE>>
  ELSE IF \E d \in Dims : FLt(st[d], min_incr) THEN <<TRUE, FALSE, TRUE>>
  ELSE <<FALSE, TRUE, TRUE>>

\* ContinuousCube.get_mask_invalid_actions_backward(state, done)
get_mask_invalid_actions_backward(st, dn) ==
  IF dn THEN <<TRUE, TRUE, FALSE>>
  ELSE IF \E d \in Dims : FLt(st[d], min_incr) THEN <<TRUE, FALSE, TRUE>>
  ELSE <<FALSE, TRUE, TRUE>>

\* min_incr arguments of the configurations whose masks are explored, in
\* tenths: 0.1 and 0.3
MaskMinIncrTenths == {1, 3}

\* Coordinates of the states passed to the mask methods: 0, 5e-7, 0.03, 0.05,
\* 0.1, 0.3, 0.45, 0.48, 0.5, 0.9, 0.95, 1.0
MaskVals == {0, 500, 3 * (One \div 100), 5 * (One \div 100), One \div 10,
             3 * (One \div 10), 45 * (One \div 100), 48 * (One \div 100),
             One \div 2, 9 * (One \div 10), 95 * (One \div 100), One}

\* States of the cube of the configuration: every coordinate in [0, max_val]
MaskStates == {st \in [Dims -> MaskVals] : \A d \in Dims : st[d] <= max_val}

InitMask ==
  /\ \E mv \in MaxVals, mi10 \in MaskMinIncrTenths : CubeInit(mv, mi10)
  /\ state = source
  /\ done = FALSE
  /\ n_actions = 0
  /\ ret = NoRet
  /\ mask_call = NoMaskCall
  /\ call = NoCall
  /\ traj = NoTraj

MaskForward ==
  \E st \in MaskStates, dn \in BOOLEAN :
    /\ mask_call' = [dir |-> "forward", state |-> st, done |-> dn,
                     mask |-> get_mask_invalid_actions_forward(st, dn)]
    /\ UNCHANGED <<config, state, done, n_actions, ret, call, traj>>

MaskBackward ==
  \E st \in MaskStates, dn \in BOOLEAN :
    /\ mask_call' = [dir |-> "backward", state |-> st, done |-> dn,
                     mask |-> get_mask_invalid_actions_backward(st, dn)]
    /\ UNCHANGED <<config, state, done, n_actions, ret, call, traj>>

NextMask == MaskForward \/ MaskBackward

SpecMask == InitMask /\ [][NextMask]_vars

\* ------------------------------------------------------------- round trips
\* A caller runs a forward trajectory from the source (in-bounds increments,
\* then EOS) and then undoes it: EOS, then the same increments in reverse.
\* Components of the increments: 0, 5e-7 (below the snapping tolerance), 0.3
\* and 0.5.
TrajVals == {0, 500, 3 * (One \div 10), One \div 2}
TrajActions == [Dims -> TrajVals]

\* The increment keeps every coordinate of st inside [0, max_val]
InBounds(st, action) ==
  \A d \in Dims : action[d] >= 0 /\ st[d] <= max_val - action[d]

InitTraj ==
  /\ \E mv \in MaxVals, mi10 \in MinIncrTenths : CubeInit(mv, mi10)
  /\ state = source
  /\ done = FALSE
  /\ n_actions = 0
  /\ ret = NoRet
  /\ mask_call = NoMaskCall
  /\ call = NoCall
  /\ traj = [phase |-> "forward", hist |-> <<>>, expected |-> source]

\* env.step(increment), remembered with the state it was applied to
TrajForward ==
  /\ traj.phase = "forward"
  /\ Len(traj.hist) < MaxTrajLen
  /\ \E action \in TrajActions :
       /\ InBounds(state, action)
       /\ step(action)
       /\ traj' = [traj EXCEPT
                     !.hist = Append(@, [action |-> action, before |-> state])]
  /\ UNCHANGED call

\* env.step(env.eos) ending the forward trajectory
TrajEos ==
  /\ traj.phase = "forward"
  /\ Len(traj.hist) >= 1
  /\ step(eos)
  /\ traj' = [traj EXCEPT !.phase = IF done' THEN "done" ELSE "forward"]
  /\ UNCHANGED call

\* env.step_backwards(env.eos)
TrajUndoEos ==
  /\ traj.phase = "done"
  /\ step_backwards(eos)
  /\ traj' = [traj EXCEPT !.phase = "backward", !.expected = state]
  /\ UNCHANGED call

\* env.step_backwards(increment) with the last increment not yet undone
TrajBackward ==
  /\ traj.phase = "backward"
  /\ Len(traj.hist) >= 1
  /\ LET last == traj.hist[Len(traj.hist)]
     IN /\ step_backwards(last.action)
        /\ traj' = [traj EXCEPT !.hist = SubSeq(@, 1, Len(@) - 1),
                                !.expected = last.before]
  /\ UNCHANGED call

NextTraj == TrajForward \/ TrajEos \/ TrajUndoEos \/ TrajBackward

SpecTraj == InitTraj /\ [][NextTraj]_vars

\* --------------------------------------------------------------- increments
\* A relative increment is a rational number, kept as a reduced fraction
\* [n, d] with d > 0; d = 0 stands for the non-finite results of a division
\* by zero: [0, 0] is NaN (0/0), [1, 0] is +inf and [-1, 0] is -inf.
RECURSIVE GCD(_, _)
GCD(a, b) == IF b = 0 THEN a ELSE GCD(b, a % b)

Abs(v) == IF v < 0 THEN 0 - v ELSE v

\* num / den as a float division of two finite numbers
Frac(num, den) ==
  IF den = 0
  THEN [n |-> IF num = 0 THEN 0 ELSE IF num > 0 THEN 1 ELSE 0 - 1, d |-> 0]
  ELSE LET g == GCD(Abs(num), Abs(den))
           sg == IF den < 0 THEN 0 - 1 ELSE 1
       IN [n |-> sg * (num \div g), d |-> sg * (den \div g)]

RelNaN == [n |-> 0, d |-> 0]

\* num / den as a float division of a float by a finite number
FDiv(num, den) ==
  IF num = NaN THEN RelNaN
  ELSE IF num = PInf THEN [n |-> IF den < 0 THEN 0 - 1 ELSE 1, d |-> 0]
  ELSE IF num = NInf THEN [n |-> IF den < 0 THEN 1 ELSE 0 - 1, d |-> 0]
  ELSE Frac(num, den)
RelIsFinite(r) == r.d # 0

\* r * v for a finite relative increment r and a number v
RelTimes(r, v) == r.n * (v \div r.d) + (r.n * (v % r.d)) \div r.d

\* Denominator of the relative increments drawn in the model: 0, 1/4, .., 1
RelDen == 4
RelVals == {Frac(k, RelDen) : k \in 0 .. RelDen}

\* Variant of relative_to_absolute_increments: the forward range is taken up
\* to the literal 1 instead of max_val.
relative_to_absolute_increments_one(states, increments_rel, min_increments, mv, is_backward) ==
  [d \in Dims |->
     IF is_backward
     THEN min_increments[d]
            + RelTimes(increments_rel[d], states[d] - min_increments[d])
     ELSE min_increments[d]
            + RelTimes(increments_rel[d],
                       One - states[d] - min_increments[d])]

\* ContinuousCube.relative_to_absolute_increments
relative_to_absolute_increments(states, increments_rel, min_increments, mv, is_backward) ==
  [d \in Dims |->
     IF is_backward
     THEN min_increments[d]
            + RelTimes(increments_rel[d], states[d] - min_increments[d])
     ELSE min_increments[d]
            + RelTimes(increments_rel[d],
                       mv - states[d] - min_increments[d])]

\* Variant of absolute_to_relative_increments: the backward branch divides by
\* the forward range.
absolute_to_relative_increments_fwd(states, increments_abs, min_increments, mv, is_backward) ==
  [d \in Dims |->
     FDiv(FSub(increments_abs[d], min_increments[d]),
          mv - states[d] - min_increments[d])]

\* ContinuousCube.absolute_to_relative_increments
absolute_to_relative_increments(states, increments_abs, min_increments, mv, is_backward) ==
  [d \in Dims |->
     IF is_backward
     THEN FDiv(FSub(increments_abs[d], min_increments[d]),
               states[d] - min_increments[d])
     ELSE FDiv(FSub(increments_abs[d], min_increments[d]),
               mv - states[d] - min_increments[d])]

\* Coordinates of the states the conversions are called with: 0, 0.1, 0.25,
\* 0.3, 0.45, 0.5, 0.7, 0.9, 1.0
IncrVals == {0, One \div 10, One \div 4, 3 * (One \div 10),
             45 * (One \div 100), One \div 2, 7 * (One \div 10),
             9 * (One \div 10), One}
IncrStates == {st \in [Dims -> IncrVals] : \A d \in Dims : st[d] <= max_val}

InitIncr ==
  /\ \E mv \in MaxVals, mi10 \in MaskMinIncrTenths : CubeInit(mv, mi10)
  /\ state = source
  /\ done = FALSE
  /\ n_actions = 0
  /\ ret = NoRet
  /\ mask_call = NoMaskCall
  /\ call = NoCall
  /\ traj = NoTraj

\* relative_to_absolute_increments followed by
\* absolute_to_relative_increments on its result, with the minimum increments
\* the environment uses: 0 (leaving the source) or self.min_incr.
IncrementsCall ==
  /\ call.op = "none"
  /\ \E st \in IncrStates, rel \in [Dims -> RelVals], m \in {0, min_incr},
        bw \in BOOLEAN :
       LET mins == [d \in Dims |-> m]
           abs == relative_to_absolute_increments(st, rel, mins, max_val, bw)
       IN call' = [op |-> "increments", states |-> st, rel |-> rel,
                   min |-> m, backward |-> bw, abs |-> abs,
                   rel_back |-> absolute_to_relative_increments(
                                  st, abs, mins, max_val, bw)]
  /\ UNCHANGED <<config, state, done, n_actions, ret, mask_call,
                 traj>>

NextIncr == IncrementsCall

SpecIncr == InitIncr /\ [][NextIncr]_vars

\* ------------------------------------------------------------ policy output
\* Largest number of components of the mixture (n_comp) the model follows
MaxComp == 2

\* Length of the continuous part of the policy output: n_dim * n_comp * 3
len_policy_output_cont(n_comp) == n_dim * n_comp * 3

\* Python's seq[start:stop:step] of a sequence (0-based start and stop,
\* 0 <= start <= stop <= len(seq), step > 0)
Slice(seq, start, stop, stride) ==
  [k \in 1 .. ((stop - start) + stride - 1) \div stride |->
     seq[start + (k - 1) * stride + 1]]

\* Variant of get_policy_output: the two logits are concatenated in the
\* other order.
get_policy_output_eos_first(params, n_comp) ==
  [i \in 1 .. len_policy_output_cont(n_comp) + 2 |->
     IF i = len_policy_output_cont(n_comp) + 1
       THEN params.bernoulli_eos_logit
     ELSE IF i = len_policy_output_cont(n_comp) + 2
       THEN params.bernoulli_source_logit
     ELSE IF (i - 1) % 3 = 0 THEN params.beta_weights
     ELSE IF (i - 1) % 3 = 1 THEN params.beta_alpha
     ELSE params.beta_beta]

\* ContinuousCube.get_policy_output(params): the continuous part, filled by
\* the assignments to [0::3], [1::3] and [2::3], then the source logit, then
\* the EOS logit.
get_policy_output(params, n_comp) ==
  [i \in 1 .. len_policy_output_cont(n_comp) + 2 |->
     IF i = len_policy_output_cont(n_comp) + 1
       THEN params.bernoulli_source_logit
     ELSE IF i = len_policy_output_cont(n_comp) + 2
       THEN params.bernoulli_eos_logit
     ELSE IF (i - 1) % 3 = 0 THEN params.beta_weights
     ELSE IF (i - 1) % 3 = 1 THEN params.beta_alpha
     ELSE params.beta_beta]

\* ContinuousCube._get_policy_betas_weights, for one state of the batch
_get_policy_betas_weights(policy_output, n_comp) ==
  Slice(policy_output, 0, len_policy_output_cont(n_comp), 3)

\* ContinuousCube._get_policy_betas_alpha
_get_policy_betas_alpha(policy_output, n_comp) ==
  Slice(policy_output, 1, len_policy_output_cont(n_comp), 3)

\* ContinuousCube._get_policy_betas_beta
_get_policy_betas_beta(policy_output, n_comp) ==
  Slice(policy_output, 2, len_policy_output_cont(n_comp), 3)

\* ContinuousCube._get_policy_eos_logit: policy_output[:, -1]
_get_policy_eos_logit(policy_output) == policy_output[Len(policy_output)]

\* ContinuousCube._get_policy_source_logit: policy_output[:, -2]
_get_policy_source_logit(policy_output) ==
  policy_output[Len(policy_output) - 1]

\* Values of the distribution parameters explored
ParamVals == {1, 2, 5}
DistrParams ==
  [beta_weights : ParamVals, beta_alpha : ParamVals, beta_beta : ParamVals,
   bernoulli_source_logit : ParamVals, bernoulli_eos_logit : ParamVals]

InitPolicy ==
  /\ \E mv \in MaxVals, mi10 \in MinIncrTenths : CubeInit(mv, mi10)
  /\ state = source
  /\ done = FALSE
  /\ n_actions = 0
  /\ ret = NoRet
  /\ mask_call = NoMaskCall
  /\ call = NoCall
  /\ traj = NoTraj

\* get_policy_output(params) followed by the five decoders on its result
PolicyOutputCall ==
  /\ call.op = "none"
  /\ \E params \in DistrParams, n_comp \in 1 .. MaxComp :
       LET po == get_policy_output(params, n_comp)
       IN call' = [op |-> "policy_output", params |-> params,
                   n_comp |-> n_comp, output |-> po,
                   weights |-> _get_policy_betas_weights(po, n_comp),
                   alpha |-> _get_policy_betas_alpha(po, n_comp),
                   beta |-> _get_policy_betas_beta(po, n_comp),
                   eos_logit |-> _get_policy_eos_logit(po),
                   source_logit |-> _get_policy_source_logit(po)]
  /\ UNCHANGED <<config, state, done, n_actions, ret, mask_call,
                 traj>>

NextPolicy == PolicyOutputCall

SpecPolicy == InitPolicy /\ [][NextPolicy]_vars

\* ------------------------------------------- sampling and log probabilities
\* A log probability is followed by its class: exactly 0.0 ("zero"), a finite
\* number that need not be 0.0 ("finite"), +inf, -inf or NaN.
LogSum(terms) ==
  IF "nan" \in terms \/ ("pinf" \in terms /\ "ninf" \in terms) THEN "nan"
  ELSE IF "pinf" \in terms THEN "pinf"
  ELSE IF "ninf" \in terms THEN "ninf"
  ELSE IF terms \subseteq {"zero"} THEN "zero"
  ELSE "finite"

\* torch.log of a Jacobian term
LogOf(j) ==
  IF j.d = 0 THEN (IF j.n > 0 THEN "pinf" ELSE "nan")
  ELSE IF j.n < 0 THEN "nan"
  ELSE IF j.n = 0 THEN "ninf"
  ELSE IF j.n = j.d THEN "zero"
  ELSE "finite"

\* Bernoulli(logits).log_prob(x) for a finite logit: log sigmoid(+-logit)
BernoulliLogProb(logit, x) == "finite"

\* The bounds of the clamp, 1e-6 and 1 - 1e-6
ClampDen == 1000000
ClampMin == Frac(1, ClampDen)
ClampMax == Frac(ClampDen - 1, ClampDen)

\* torch.clamp(r, min=1e-6, max=1 - 1e-6): NaN stays NaN
Clamp(r) ==
  IF r.d = 0
  THEN (IF r.n = 0 THEN RelNaN ELSE IF r.n > 0 THEN ClampMax ELSE ClampMin)
  ELSE IF r.n <= 0 \/ r.n <= (r.d - 1) \div ClampDen THEN ClampMin
  ELSE IF r.d - r.n <= 0 \/ r.d - r.n <= (r.d - 1) \div ClampDen
    THEN ClampMax
  ELSE r

\* Log probability of the (mixture of) Beta distribution(s) at a relative
\* increment: finite inside (0, 1), NaN at NaN
BetaLogProb(r) == IF r.d = 0 THEN "nan" ELSE "finite"

\* ContinuousCube._get_jacobian_diag: 1 / (range + epsilon), epsilon = 1e-9
_get_jacobian_diag(states_from, min_increments, mv, is_backward) ==
  [d \in Dims |->
     IF is_backward
     THEN Frac(One, (states_from[d] - min_increments[d]) + step_epsilon)
     ELSE Frac(One, (mv - states_from[d] - min_increments[d])
                      + step_epsilon)]

Zeros == [d \in Dims |-> 0]

\* ContinuousCube._sample_actions_batch_forward for one state of the batch;
\* eos_sample is the draw of the Bernoulli distribution and increments_rel
\* the draw of the Beta distribution(s).
_sample_actions_batch_forward(mask, states_from, eos_sample, increments_rel) ==
  LET is_source == ~mask[2]
      is_eos_forced == mask[1]
      do_eos == ~is_source /\ ~is_eos_forced
      is_eos == is_eos_forced \/ (do_eos /\ eos_sample)
      do_increments == ~is_eos
      min_increments == [d \in Dims |-> IF is_source THEN 0 ELSE min_incr]
  IN IF is_source /\ is_eos_forced
     THEN [raised |-> TRUE, action |-> eos, branch |-> "none",
           forced |-> FALSE, min_increments |-> Zeros]
     ELSE IF do_increments
     THEN [raised |-> FALSE,
           action |-> relative_to_absolute_increments(
                        states_from, increments_rel, min_increments,
                        max_val, FALSE),
           branch |-> "increments", forced |-> FALSE,
           min_increments |-> min_increments]
     ELSE [raised |-> FALSE, action |-> eos, branch |-> "eos",
           forced |-> is_eos_forced, min_increments |-> Zeros]

\* Variant of _sample_actions_batch_backward: a back-to-source action is the
\* vector of zeros the action tensor is initialised with.
_sample_actions_batch_backward_zeros(mask, states_from, bts_sample, increments_rel) ==
  LET is_eos == ~mask[3]
      is_bts_forced == ~mask[2]
      do_bts == ~is_bts_forced /\ ~is_eos
      is_bts == is_bts_forced \/ (do_bts /\ bts_sample)
      do_increments == ~is_bts /\ ~is_eos
      min_increments == [d \in Dims |-> min_incr]
  IN [raised |-> FALSE,
      action |-> IF is_bts THEN Zeros
                 ELSE IF do_increments
                   THEN relative_to_absolute_increments(
                          states_from, increments_rel, min_increments,
                          max_val, TRUE)
                 ELSE eos,
      branch |-> IF is_bts THEN "bts"
                 ELSE IF do_increments THEN "increments" ELSE "eos",
      forced |-> IF is_bts THEN is_bts_forced ELSE is_eos,
      min_increments |-> IF do_increments THEN min_increments ELSE Zeros]

\* ContinuousCube._sample_actions_batch_backward for one state of the batch:
\* the action tensor starts as zeros, takes inf where is_eos, the absolute
\* increments where do_increments and, last, states_from where is_bts.
_sample_actions_batch_backward(mask, states_from, bts_sample, increments_rel) ==
  LET is_eos == ~mask[3]
      is_bts_forced == ~mask[2]
      do_bts == ~is_bts_forced /\ ~is_eos
      is_bts == is_bts_forced \/ (do_bts /\ bts_sample)
      do_increments == ~is_bts /\ ~is_eos
      min_increments == [d \in Dims |-> min_incr]
  IN [raised |-> FALSE,
      action |-> IF is_bts THEN states_from
                 ELSE IF do_increments
                   THEN relative_to_absolute_increments(
                          states_from, increments_rel, min_increments,
                          max_val, TRUE)
                 ELSE IF is_eos THEN eos
                 ELSE Zeros,
      branch |-> IF is_bts THEN "bts"
                 ELSE IF do_increments THEN "increments" ELSE "eos",
      forced |-> IF is_bts THEN is_bts_forced ELSE is_eos,
      min_increments |-> IF do_increments THEN min_increments ELSE Zeros]

\* ContinuousCube.sample_actions_batch
sample_actions_batch(mask, states_from, is_backward, sample, increments_rel) ==
  IF ~is_backward
  THEN _sample_actions_batch_forward(mask, states_from, sample,
                                     increments_rel)
  ELSE _sample_actions_batch_backward(mask, states_from, sample,
                                      increments_rel)

NotComputed == <<>>

\* Variant of _get_logprobs_forward: the log probability of the Bernoulli
\* distribution is taken for every state that is not the source, forced EOS
\* included.
_get_logprobs_forward_bernoulli_forced(policy_outputs, actions, mask, states_from) ==
  LET is_source == ~mask[2]
      is_eos_forced == mask[1]
      do_eos == ~is_source
      is_eos_sampled == do_eos /\ \A d \in Dims : actions[d] = eos[d]
      is_eos == is_eos_forced \/ is_eos_sampled
      logprobs_eos ==
        IF do_eos
        THEN BernoulliLogProb(_get_policy_eos_logit(policy_outputs),
                              is_eos_sampled)
        ELSE "zero"
      do_increments == ~is_eos
      min_increments == [d \in Dims |-> IF is_source THEN 0 ELSE min_incr]
      increments_rel ==
        [d \in Dims |->
           Clamp(absolute_to_relative_increments(
                   states_from, actions, min_increments, max_val,
                   FALSE)[d])]
      jacobian_diag ==
        _get_jacobian_diag(states_from, min_increments, max_val, FALSE)
  IN IF is_source /\ is_eos_forced
     THEN [raised |-> TRUE, branch |-> "none", min_increments |-> Zeros,
           increments_rel |-> NotComputed, jacobian_diag |-> NotComputed,
           logprobs |-> "nan"]
     ELSE IF do_increments
     THEN [raised |-> FALSE, branch |-> "increments",
           min_increments |-> min_increments,
           increments_rel |-> increments_rel,
           jacobian_diag |-> jacobian_diag,
           logprobs |->
             LogSum({logprobs_eos}
                    \cup {BetaLogProb(increments_rel[d]) : d \in Dims}
                    \cup {LogOf(jacobian_diag[d]) : d \in Dims})]
     ELSE [raised |-> FALSE, branch |-> "eos", min_increments |-> Zeros,
           increments_rel |-> NotComputed, jacobian_diag |-> NotComputed,
           logprobs |-> LogSum({logprobs_eos})]

\* ContinuousCube._get_logprobs_forward for one state of the batch
_get_logprobs_forward(policy_outputs, actions, mask, states_from) ==
  LET is_source == ~mask[2]
      is_eos_forced == mask[1]
      do_eos == ~is_source /\ ~is_eos_forced
      is_eos_sampled == do_eos /\ \A d \in Dims : actions[d] = eos[d]
      is_eos == is_eos_forced \/ is_eos_sampled
      logprobs_eos ==
        IF do_eos
        THEN BernoulliLogProb(_get_policy_eos_logit(policy_outputs),
                              is_eos_sampled)
        ELSE "zero"
      do_increments == ~is_eos
      min_increments == [d \in Dims |-> IF is_source THEN 0 ELSE min_incr]
      increments_rel ==
        [d \in Dims |->
           Clamp(absolute_to_relative_increments(
                   states_from, actions, min_increments, max_val,
                   FALSE)[d])]
      jacobian_diag ==
        _get_jacobian_diag(states_from, min_increments, max_val, FALSE)
  IN IF is_source /\ is_eos_forced
     THEN [raised |-> TRUE, branch |-> "none", min_increments |-> Zeros,
           increments_rel |-> NotComputed, jacobian_diag |-> NotComputed,
           logprobs |-> "nan"]
     ELSE IF do_increments
     THEN [raised |-> FALSE, branch |-> "increments",
           min_increments |-> min_increments,
           increments_rel |-> increments_rel,
           jacobian_diag |-> jacobian_diag,
           logprobs |->
             LogSum({logprobs_eos}
                    \cup {BetaLogProb(increments_rel[d]) : d \in Dims}
                    \cup {LogOf(jacobian_diag[d]) : d \in Dims})]
     ELSE [raised |-> FALSE, branch |-> "eos", min_increments |-> Zeros,
           increments_rel |-> NotComputed, jacobian_diag |-> NotComputed,
           logprobs |-> LogSum({logprobs_eos})]

\* ContinuousCube._get_logprobs_backward for one state of the batch; the
\* last assignment sets the log probability of the states with is_eos to 0.0.
_get_logprobs_backward(policy_outputs, actions, mask, states_from) ==
  LET is_eos == ~mask[3]
      is_bts_forced == ~mask[2]
      do_bts == ~is_bts_forced /\ ~is_eos
      is_bts_sampled ==
        do_bts /\ \A d \in Dims : actions[d] = states_from[d]
      is_bts == is_bts_forced \/ is_bts_sampled
      logprobs_bts ==
        IF do_bts
        THEN BernoulliLogProb(_get_policy_source_logit(policy_outputs),
                              is_bts_sampled)
        ELSE "zero"
      do_increments == ~is_bts /\ ~is_eos
      min_increments == [d \in Dims |-> min_incr]
      increments_rel ==
        [d \in Dims |->
           Clamp(absolute_to_relative_increments(
                   states_from, actions, min_increments, max_val,
                   TRUE)[d])]
      jacobian_diag ==
        _get_jacobian_diag(states_from, min_increments, max_val, TRUE)
  IN IF do_increments
     THEN [raised |-> FALSE, branch |-> "increments",
           min_increments |-> min_increments,
           increments_rel |-> increments_rel,
           jacobian_diag |-> jacobian_diag,
           logprobs |->
             LogSum({logprobs_bts}
                    \cup {BetaLogProb(increments_rel[d]) : d \in Dims}
                    \cup {LogOf(jacobian_diag[d]) : d \in Dims})]
     ELSE [raised |-> FALSE,
           branch |-> IF is_bts THEN "bts" ELSE "eos",
           min_increments |-> Zeros,
           increments_rel |-> NotComputed, jacobian_diag |-> NotComputed,
           logprobs |-> IF is_eos THEN "zero" ELSE LogSum({logprobs_bts})]

\* ContinuousCube.get_logprobs
get_logprobs(policy_outputs, actions, mask, states_from, is_backward) ==
  IF is_backward
  THEN _get_logprobs_backward(policy_outputs, actions, mask, states_from)
  ELSE _get_logprobs_forward(policy_outputs, actions, mask, states_from)

\* Relative increments drawn from the Beta distribution(s) in the model:
\* the multiples of 1 / RelDen and a draw below the tolerance of the snap
SmallRel == Frac(1, 2000000)
SampleRels == RelVals \cup {SmallRel}

\* Distribution parameters of the policy outputs explored: the default
\* fixed_distr_params and parameters with other logits
SampleParams ==
  {[beta_weights |-> 1, beta_alpha |-> 2, beta_beta |-> 5,
    bernoulli_source_logit |-> 1, bernoulli_eos_logit |-> 1],
   [beta_weights |-> 1, beta_alpha |-> 1, beta_beta |-> 1,
    bernoulli_source_logit |-> 2, bernoulli_eos_logit |-> 5]}

\* Coordinates of the states the sampler is called with: 0, 0.05, 0.1, 0.45,
\* 0.48, 0.5, 0.9, 0.95
SampleVals == {0, One \div 20, One \div 10, 45 * (One \div 100),
               48 * (One \div 100), One \div 2, 9 * (One \div 10),
               95 * (One \div 100)}
SampleStates ==
  {st \in [Dims -> SampleVals] : \A d \in Dims : st[d] <= max_val}

InitSample ==
  /\ \E mv \in MaxVals, mi10 \in MinIncrTenths : CubeInit(mv, mi10)
  /\ state = source
  /\ done = FALSE
  /\ n_actions = 0
  /\ ret = NoRet
  /\ mask_call = NoMaskCall
  /\ call = NoCall
  /\ traj = NoTraj

\* The mask of a state, sample_actions_batch with that mask and get_logprobs
\* with the same mask for an action: the sampled one, EOS, or the coordinates
\* of the state.
SampleCall ==
  /\ call.op = "none"
  /\ \E st \in SampleStates, dn \in BOOLEAN, bw \in BOOLEAN,
        sample \in BOOLEAN, rel \in [Dims -> SampleRels],
        params \in SampleParams, passed \in {"sampled", "eos", "state"} :
       LET mask == IF bw THEN get_mask_invalid_actions_backward(st, dn)
                   ELSE get_mask_invalid_actions_forward(st, dn)
           po == get_policy_output(params, 1)
           sampled == sample_actions_batch(mask, st, bw, sample, rel)
           action == IF passed = "sampled" THEN sampled.action
                     ELSE IF passed = "eos" THEN eos ELSE st
       IN call' = [op |-> "sample", states_from |-> st, done |-> dn,
                   backward |-> bw, mask |-> mask, sampled |-> sampled,
                   passed |-> passed, action |-> action,
                   logprobs |-> get_logprobs(po, action, mask, st, bw)]
  /\ UNCHANGED <<config, state, done, n_actions, ret, mask_call,
                 traj>>

NextSample == SampleCall

SpecSample == InitSample /\ [][NextSample]_vars

\* min_incr arguments the constructor accepts, in tenths: 0.1, 1.0, 1.5
CtorMinIncrTenths == {1, 10, 15}

InitCtor ==
  /\ \E mv \in MaxVals, mi10 \in CtorMinIncrTenths : CubeInit(mv, mi10)
  /\ state = source
  /\ done = FALSE
  /\ n_actions = 0
  /\ ret = NoRet
  /\ mask_call = NoMaskCall
  /\ call = NoCall
  /\ traj = NoTraj

NextCtor == SampleCall

\* The masks, the sampler and get_logprobs for the configurations the
\* constructor accepts
SpecCtor == InitCtor /\ [][NextCtor]_vars

\* ------------------------------------------------ sampled trajectories
\* Relative increments drawn along the sampled trajectories: 0, a draw below
\* the tolerance of the snap, 1/2 and 1
SamplingRels == {Frac(0, 1), SmallRel, Frac(1, 2), Frac(1, 1)}

InitSampling ==
  /\ \E mv \in MaxVals, mi10 \in MinIncrTenths : CubeInit(mv, mi10)
  /\ state = source
  /\ done = FALSE
  /\ n_actions = 0
  /\ ret = NoRet
  /\ mask_call = NoMaskCall
  /\ call = NoCall
  /\ traj = [phase |-> "sampling", hist |-> <<>>, expected |-> source]

\* One step of a forward trajectory: the forward mask of the current state,
\* an action of the forward sampler for that mask, env.step(action)
SampleForward ==
  /\ ~done
  /\ \E sample \in BOOLEAN, rel \in [Dims -> SamplingRels] :
       LET mask == get_mask_invalid_actions_forward(state, done)
           sampled == _sample_actions_batch_forward(mask, state, sample, rel)
       IN /\ ~sampled.raised
          /\ step(sampled.action)
          /\ call' = [op |-> "sample_forward", states_from |-> state,
                      mask |-> mask, sampled |-> sampled]
  /\ UNCHANGED traj

\* One step of a backward trajectory: the backward mask of the current
\* state, an action of the backward sampler, env.step_backwards(action)
SampleBackward ==
  /\ \E sample \in BOOLEAN, rel \in [Dims -> SamplingRels] :
       LET mask == get_mask_invalid_actions_backward(state, done)
           sampled == _sample_actions_batch_backward(mask, state, sample, rel)
       IN /\ step_backwards(sampled.action)
          /\ call' = [op |-> "sample_backward", states_from |-> state,
                      mask |-> mask, sampled |-> sampled]
  /\ UNCHANGED traj

NextSampling == SampleForward \/ SampleBackward

SpecSampling == InitSampling /\ [][NextSampling]_vars

\* ------------------------------------------------------ state conversions
\* max(a, b) and min(a, b) of Python and the bounds of torch.clip on floats
\* that are not NaN
PyMax(a, b) == IF b > a THEN b ELSE a
PyMin(a, b) == IF b < a THEN b ELSE a

\* 2.0 * c - 1.0 (written c + (c - 1) so that it stays a machine integer)
TwiceMinusOne(c) == FAdd(c, FSub(c, One))

\* Cube.state2policy: [2.0 * min(max(0.0, s), self.max_val) - 1.0 for s in state]
state2policy(st) ==
  [d \in Dims |-> TwiceMinusOne(PyMin(PyMax(0, st[d]), max_val))]

\* Cube.statetorch2policy: 2.0 * torch.clip(states, min=0.0, max=self.max_val) - 1.0
statetorch2policy(states) ==
  [d \in Dims |->
     TwiceMinusOne(IF states[d] < 0 THEN 0
                   ELSE IF states[d] > max_val THEN max_val
                   ELSE states[d])]

\* A character of a string: a literal character, or the characters of the
\* repr of a float taken as one (they hold no bracket, comma or space)
Ch(c) == [ch |-> c, num |-> 0]
NumRepr(x) == [ch |-> "repr", num |-> x]

\* Python values: a float or a string
PyFloat(x) == [type |-> "float", float |-> x, str |-> <<>>]
PyStr(chars) == [type |-> "str", float |-> 0, str |-> chars]

\* a == b of two Python values: a string never equals a float
PyEq(a, b) ==
  /\ a.type = b.type
  /\ IF a.type = "float" THEN a.float = b.float ELSE a.str = b.str

\* str(list): "[x1, x2, ..]"
RECURSIVE StrItems(_)
StrItems(items) ==
  IF items = <<>> THEN <<>>
  ELSE IF Len(items) = 1 THEN <<NumRepr(items[1].float)>>
  ELSE <<NumRepr(items[1].float), Ch(","), Ch(" ")>> \o StrItems(Tail(items))

StrOfList(items) == <<Ch("[")>> \o StrItems(items) \o <<Ch("]")>>

\* s.replace(old, new) for a one-character old and a new of zero or one
\* characters
RECURSIVE StrReplace(_, _, _)
StrReplace(chars, old, new) ==
  IF chars = <<>> THEN <<>>
  ELSE (IF chars[1] = Ch(old) THEN new ELSE <<chars[1]>>)
         \o StrReplace(Tail(chars), old, new)

\* s.strip(set): the leading and trailing characters of the set are removed
RECURSIVE StrLStrip(_, _)
StrLStrip(chars, set) ==
  IF chars # <<>> /\ chars[1] \in set THEN StrLStrip(Tail(chars), set)
  ELSE chars

RECURSIVE StrRStrip(_, _)
StrRStrip(chars, set) ==
  IF chars # <<>> /\ chars[Len(chars)] \in set
  THEN StrRStrip(SubSeq(chars, 1, Len(chars) - 1), set)
  ELSE chars

StrStrip(chars, set) == StrRStrip(StrLStrip(chars, set), set)

\* s.split(sep) with a one-character separator: the list of the pieces
\* between the separators, empty pieces included
RECURSIVE StrSplitFrom(_, _, _)
StrSplitFrom(chars, sep, piece) ==
  IF chars = <<>> THEN <<piece>>
  ELSE IF chars[1] = Ch(sep)
    THEN <<piece>> \o StrSplitFrom(Tail(chars), sep, <<>>)
  ELSE StrSplitFrom(Tail(chars), sep, Append(piece, chars[1]))

StrSplit(chars, sep) == StrSplitFrom(chars, sep, <<>>)

\* Cube.state2readable:
\* str(state).replace("(", "[").replace(")", "]").replace(",", "")
state2readable(st) ==
  StrReplace(StrReplace(StrReplace(StrOfList(st), "(", <<Ch("[")>>),
                        ")", <<Ch("]")>>),
             ",", <<>>)

\* Cube.readable2state: [el for el in readable.strip("[]").split(" ")]
readable2state(readable) ==
  LET pieces == StrSplit(StrStrip(readable, {Ch("["), Ch("]")}), " ")
  IN [i \in 1 .. Len(pieces) |-> PyStr(pieces[i])]

\* Values of max_val and of the coordinates the conversions are called with:
\* -0.2, 0, 0.25, 0.5, 0.75, 1.0, 1.5, 1.8, inf
ConvMaxVals == {One \div 2, One, 3 * (One \div 2)}
ConvVals == {0 - (One \div 5), 0, One \div 4, One \div 2, 3 * (One \div 4),
             One, 3 * (One \div 2), 9 * (One \div 5), PInf}
ConvStates == [Dims -> ConvVals]

InitConv ==
  /\ \E mv \in ConvMaxVals, mi10 \in MinIncrTenths : CubeInit(mv, mi10)
  /\ state = source
  /\ done = FALSE
  /\ n_actions = 0
  /\ ret = NoRet
  /\ mask_call = NoMaskCall
  /\ call = NoCall
  /\ traj = NoTraj

\* state2policy(state) and statetorch2policy of the same state
State2PolicyCall ==
  /\ call.op = "none"
  /\ \E st \in ConvStates :
       call' = [op |-> "state2policy", state |-> st,
                policy |-> state2policy(st),
                policy_torch |-> statetorch2policy(st)]
  /\ UNCHANGED <<config, state, done, n_actions, ret, mask_call,
                 traj>>

\* readable2state(state2readable(state))
ReadableCall ==
  /\ call.op = "none"
  /\ \E st \in ConvStates :
       LET pystate == [d \in Dims |-> PyFloat(st[d])]
           readable == state2readable(pystate)
       IN call' = [op |-> "readable", state |-> pystate,
                   readable |-> readable,
                   back |-> readable2state(readable)]
  /\ UNCHANGED <<config, state, done, n_actions, ret, mask_call,
                 traj>>

NextConv == State2PolicyCall \/ ReadableCall

SpecConv == InitConv /\ [][NextConv]_vars

\* ------------------------------------------------------------- SpaceGroup
\* Prop: the index of each property in the state and in an action
Prop_CLS == 0
Prop_PS == 1
Prop_SG == 2

\* The dictionary of the space groups (space_groups.yaml), here four space
\* groups in two crystal-lattice systems and three point symmetries; the
\* pairs (1, 3) and (2, 2) of a crystal-lattice system and a point symmetry
\* have no space group.
space_groups ==
  [sg \in 1 .. 4 |->
     [crystal_lattice_system_idx |-> IF sg <= 2 THEN 1 ELSE 2,
      point_symmetry_idx |-> IF sg = 2 THEN 2 ELSE IF sg = 4 THEN 3 ELSE 1]]

\* crystal_lattice_systems.yaml: the space groups and the point symmetries
\* of each crystal-lattice system
crystal_lattice_systems ==
  [cls \in {space_groups[sg].crystal_lattice_system_idx :
              sg \in DOMAIN space_groups} |->
     [space_groups |->
        {sg \in DOMAIN space_groups :
           space_groups[sg].crystal_lattice_system_idx = cls},
      point_symmetries |->
        {space_groups[sg].point_symmetry_idx :
           sg \in {g \in DOMAIN space_groups :
                     space_groups[g].crystal_lattice_system_idx = cls}}]]

\* point_symmetries.yaml: the space groups and the crystal-lattice systems of
\* each point symmetry
point_symmetries ==
  [ps \in {space_groups[sg].point_symmetry_idx : sg \in DOMAIN space_groups}
     |->
     [space_groups |->
        {sg \in DOMAIN space_groups :
           space_groups[sg].point_symmetry_idx = ps},
      crystal_lattice_systems |->
        {space_groups[sg].crystal_lattice_system_idx :
           sg \in {g \in DOMAIN space_groups :
                     space_groups[g].point_symmetry_idx = ps}}]]

\* SpaceGroup.__init__: self.eos = (-1, -1, -1), self.source = [0, 0, 0]
SpaceGroup_eos == <<0 - 1, 0 - 1, 0 - 1>>
SpaceGroup_source == <<0, 0, 0>>

\* StateType.ALL and StateType.get_state_type:
\* sum([int(s > 0) * f for s, f in zip(state, (1, 2))])
StateType_ALL == 0 .. 3
get_state_type(st) ==
  (IF st[1] > 0 THEN 1 ELSE 0) + (IF st[2] > 0 THEN 2 ELSE 0)

\* SpaceGroup.get_action_space, as the set of its elements
SpaceGroup_action_space ==
  {<<Prop_CLS, idx, t>> : idx \in DOMAIN crystal_lattice_systems,
                          t \in StateType_ALL \ {1, 3}}
  \cup {<<Prop_PS, idx, t>> : idx \in DOMAIN point_symmetries,
                              t \in StateType_ALL \ {2, 3}}
  \cup {<<Prop_SG, idx, t>> : idx \in DOMAIN space_groups,
                              t \in StateType_ALL}
  \cup {SpaceGroup_eos}

\* The absent argument of an optional parameter
None == 0 - 1

\* A Python bool as an element of a set of integers: True == 1, False == 0
PyBoolInt(b) == IF b THEN 1 ELSE 0

\* SpaceGroup._is_compatible(cls, ps): the list
\* [self.n_atoms_compatibility_dict[sg] for sg in self.space_groups] holds
\* one bool per space group; the intersections are taken with sets of space
\* group numbers.
_is_compatible(cls, ps) ==
  LET n_space_groups == Cardinality(DOMAIN space_groups)
      as_set ==
        {PyBoolInt(n_atoms_compatibility_dict[sg]) : sg \in DOMAIN space_groups}
      pruned_cls ==
        IF cls # None
        THEN as_set \cap crystal_lattice_systems[cls].space_groups
        ELSE as_set
      pruned_ps ==
        IF ps # None THEN pruned_cls \cap point_symmetries[ps].space_groups
        ELSE pruned_cls
  IN IF cls = None /\ ps = None THEN n_space_groups > 0
     ELSE pruned_ps # {}

\* SpaceGroup.get_mask_invalid_actions_forward: the mask as a function of the
\* actions, raised when the assertion len(actions_valid) > 0 fails
SpaceGroup_get_mask_invalid_actions_forward(st, dn) ==
  LET cls_state == st[1]
      ps_state == st[2]
      sg_state == st[3]
      state_type == get_state_type(st)
      crystal_lattice_systems_valid ==
        IF cls_state # 0 THEN {}
        ELSE IF ps_state = 0
          THEN {<<Prop_CLS, cls, state_type>> :
                  cls \in {c \in DOMAIN crystal_lattice_systems :
                             _is_compatible(c, None)}}
        ELSE {<<Prop_CLS, cls, state_type>> :
                cls \in {c \in point_symmetries[ps_state].crystal_lattice_systems :
                           _is_compatible(c, ps_state)}}
      point_symmetries_valid ==
        IF ps_state # 0 THEN {}
        ELSE IF cls_state = 0
          THEN {<<Prop_PS, ps, state_type>> :
                  ps \in {q \in DOMAIN point_symmetries :
                            _is_compatible(None, q)}}
        ELSE {<<Prop_PS, ps, state_type>> :
                ps \in {q \in crystal_lattice_systems[cls_state].point_symmetries :
                          _is_compatible(cls_state, q)}}
      space_groups_cls ==
        {<<Prop_SG, sg, state_type>> :
           sg \in {g \in (IF cls_state # 0
                          THEN crystal_lattice_systems[cls_state].space_groups
                          ELSE DOMAIN space_groups) :
                     n_atoms_compatibility_dict[g]}}
      space_groups_ps ==
        {<<Prop_SG, sg, state_type>> :
           sg \in {g \in (IF ps_state # 0
                          THEN point_symmetries[ps_state].space_groups
                          ELSE DOMAIN space_groups) :
                     n_atoms_compatibility_dict[g]}}
      actions_valid ==
        crystal_lattice_systems_valid \cup point_symmetries_valid
          \cup (space_groups_cls \cap space_groups_ps)
  IN IF dn
     THEN [raised |-> FALSE, mask |-> [a \in SpaceGroup_action_space |-> TRUE]]
     ELSE IF sg_state # 0
     THEN [raised |-> FALSE,
           mask |-> [a \in SpaceGroup_action_space |-> a # SpaceGroup_eos]]
     ELSE IF actions_valid = {}
     THEN [raised |-> TRUE, mask |-> [a \in SpaceGroup_action_space |-> TRUE]]
     ELSE [raised |-> FALSE,
           mask |-> [a \in SpaceGroup_action_space |-> a \notin actions_valid]]

\* SpaceGroup._set_constrained_properties
_set_constrained_properties(st) ==
  IF st[3] # 0
  THEN <<IF st[1] = 0 THEN space_groups[st[3]].crystal_lattice_system_idx
         ELSE st[1],
         IF st[2] = 0 THEN space_groups[st[3]].point_symmetry_idx
         ELSE st[2],
         st[3]>>
  ELSE st

\* Variant of SpaceGroup.get_parents: the type in each action is the type of
\* the state, not of the parent.
SpaceGroup_get_parents_state_type(st, dn) ==
  IF dn
  THEN [parents |-> <<st>>, actions |-> <<SpaceGroup_eos>>, state |-> st]
  ELSE IF st[3] # 0
  THEN LET sg == st[3]
           cleared == [st EXCEPT ![3] = 0]
           parent(prop) == [cleared EXCEPT ![prop + 1] = 0]
       IN [parents |-> <<SpaceGroup_source>>
                         \o [k \in 1 .. 3 |-> parent(k - 1)],
           actions |-> <<<<Prop_SG, sg, 0>>>>
                         \o [k \in 1 .. 3 |->
                               <<Prop_SG, sg, get_state_type(cleared)>>],
           state |-> cleared]
  ELSE LET props == {prop \in {Prop_CLS, Prop_PS} : st[prop + 1] # 0}
           order == IF props = {Prop_CLS, Prop_PS} THEN <<Prop_CLS, Prop_PS>>
                    ELSE IF props = {Prop_CLS} THEN <<Prop_CLS>>
                    ELSE IF props = {Prop_PS} THEN <<Prop_PS>>
                    ELSE <<>>
       IN [parents |-> [k \in 1 .. Len(order) |->
                          [st EXCEPT ![order[k] + 1] = 0]],
           actions |-> [k \in 1 .. Len(order) |->
                          <<order[k], st[order[k] + 1], get_state_type(st)>>],
           state |-> st]

\* SpaceGroup.get_parents(state, done) for a list passed as state: the
\* parents, the actions and the list after the call (the branch of a set
\* space group assigns state[Prop.SG] = 0 in the list it was given)
SpaceGroup_get_parents(st, dn) ==
  IF dn
  THEN [parents |-> <<st>>, actions |-> <<SpaceGroup_eos>>, state |-> st]
  ELSE IF st[3] # 0
  THEN LET sg == st[3]
           cleared == [st EXCEPT ![3] = 0]
           parent(prop) == [cleared EXCEPT ![prop + 1] = 0]
       IN [parents |-> <<SpaceGroup_source>>
                         \o [k \in 1 .. 3 |-> parent(k - 1)],
           actions |-> <<<<Prop_SG, sg, 0>>>>
                         \o [k \in 1 .. 3 |->
                               <<Prop_SG, sg, get_state_type(parent(k - 1))>>],
           state |-> cleared]
  ELSE LET props == {prop \in {Prop_CLS, Prop_PS} : st[prop + 1] # 0}
           order == IF props = {Prop_CLS, Prop_PS} THEN <<Prop_CLS, Prop_PS>>
                    ELSE IF props = {Prop_CLS} THEN <<Prop_CLS>>
                    ELSE IF props = {Prop_PS} THEN <<Prop_PS>>
                    ELSE <<>>
       IN [parents |-> [k \in 1 .. Len(order) |->
                          [st EXCEPT ![order[k] + 1] = 0]],
           actions |-> [k \in 1 .. Len(order) |->
                          <<order[k], st[order[k] + 1],
                            get_state_type([st EXCEPT ![order[k] + 1] = 0])>>],
           state |-> st]

\* Variant of SpaceGroup.step: n_actions is incremented before the test of
\* the mask.
SpaceGroup_step_counts_first(action) ==
  LET m == SpaceGroup_get_mask_invalid_actions_forward(state, done)
      rec(outcome) == [op |-> "SpaceGroup.step", action |-> action,
                       before |-> state, was_done |-> done,
                       n_before |-> n_actions, outcome |-> outcome]
  IN /\ UNCHANGED <<config, mask_call>>
     /\ IF action \notin SpaceGroup_action_space
        THEN ret' = rec("raised") /\ UNCHANGED env
        ELSE IF m.raised
        THEN ret' = rec("raised") /\ UNCHANGED env
        ELSE IF m.mask[action]
        THEN /\ ret' = rec("invalid")
             /\ n_actions' = n_actions + 1
             /\ UNCHANGED <<state, done>>
        ELSE /\ ret' = rec("valid")
             /\ n_actions' = n_actions + 1
             /\ IF action # SpaceGroup_eos
                THEN /\ state' = _set_constrained_properties(
                                   [state EXCEPT ![action[1] + 1] = action[2]])
                     /\ UNCHANGED done
                ELSE done' = TRUE /\ UNCHANGED state

\* SpaceGroup.step(action)
SpaceGroup_step(action) ==
  LET m == SpaceGroup_get_mask_invalid_actions_forward(state, done)
      rec(outcome) == [op |-> "SpaceGroup.step", action |-> action,
                       before |-> state, was_done |-> done,
                       n_before |-> n_actions, outcome |-> outcome]
  IN /\ UNCHANGED <<config, mask_call>>
     /\ IF action \notin SpaceGroup_action_space
        THEN \* raise ValueError
             ret' = rec("raised") /\ UNCHANGED env
        ELSE IF m.raised
        THEN \* assert len(actions_valid) > 0 fails in the mask
             ret' = rec("raised") /\ UNCHANGED env
        ELSE IF m.mask[action]
        THEN \* return self.state, action, False
             ret' = rec("invalid") /\ UNCHANGED env
        ELSE /\ ret' = rec("valid")
             /\ n_actions' = n_actions + 1
             /\ IF action # SpaceGroup_eos
                THEN /\ state' = _set_constrained_properties(
                                   [state EXCEPT ![action[1] + 1] = action[2]])
                     /\ UNCHANGED done
                ELSE done' = TRUE /\ UNCHANGED state

\* Actions passed to step: the action space and three tuples outside it
SpaceGroup_actions ==
  SpaceGroup_action_space
    \cup {<<Prop_CLS, 1, 1>>, <<Prop_PS, 9, 0>>, <<3, 1, 0>>}

\* Lists passed as state to get_parents: the states with no space group and
\* the states of each space group
SpaceGroup_states ==
  {<<c, q, 0>> : c \in 0 .. 2, q \in 0 .. 3}
    \cup {_set_constrained_properties(<<0, 0, g>>) : g \in DOMAIN space_groups}

InitSpaceGroup ==
  /\ max_val = One
  /\ min_incr = 0
  /\ n_atoms_compatibility_dict \in [DOMAIN space_groups -> BOOLEAN]
  /\ state = SpaceGroup_source
  /\ done = FALSE
  /\ n_actions = 0
  /\ ret = NoRet
  /\ mask_call = NoMaskCall
  /\ call = NoCall
  /\ traj = NoTraj

SpaceGroupStep ==
  /\ call.op = "none"
  /\ \E action \in SpaceGroup_actions :
       SpaceGroup_step(action) /\ UNCHANGED <<call, traj>>

\* env.get_parents(): state is None, the method works on self.state.copy()
GetParentsDefault ==
  /\ call.op = "none"
  /\ LET r == SpaceGroup_get_parents(state, done)
     IN call' = [op |-> "get_parents", passed |-> "None",
                 arg_before |-> state, arg_after |-> state,
                 env_before |-> state, done |-> done,
                 parents |-> r.parents, actions |-> r.actions]
  /\ UNCHANGED <<config, state, done, n_actions, ret, mask_call, traj>>

\* env.get_parents(s, done) for a list s that is not the state of the
\* environment
GetParentsList ==
  /\ call.op = "none"
  /\ ret = NoRet
  /\ \E st \in SpaceGroup_states, dn \in BOOLEAN :
       LET r == SpaceGroup_get_parents(st, dn)
       IN call' = [op |-> "get_parents", passed |-> "list",
                   arg_before |-> st, arg_after |-> r.state,
                   env_before |-> state, done |-> dn,
                   parents |-> r.parents, actions |-> r.actions]
  /\ UNCHANGED <<config, state, done, n_actions, ret, mask_call, traj>>

\* env.get_parents(env.state, done): the list passed is the state of the
\* environment itself
GetParentsOwnState ==
  /\ call.op = "none"
  /\ \E dn \in BOOLEAN :
       LET r == SpaceGroup_get_parents(state, dn)
       IN /\ call' = [op |-> "get_parents", passed |-> "self.state",
                      arg_before |-> state, arg_after |-> r.state,
                      env_before |-> state, done |-> dn,
                      parents |-> r.parents, actions |-> r.actions]
          /\ state' = r.state
  /\ UNCHANGED <<config, done, n_actions, ret, mask_call, traj>>

\* env._is_compatible(cls, ps)
IsCompatibleCall ==
  /\ call.op = "none"
  /\ ret = NoRet
  /\ \E cls \in {None} \cup DOMAIN crystal_lattice_systems,
        ps \in {None} \cup DOMAIN point_symmetries :
       call' = [op |-> "_is_compatible", cls |-> cls, ps |-> ps,
                result |-> _is_compatible(cls, ps)]
  /\ UNCHANGED <<config, state, done, n_actions, ret, mask_call, traj>>

NextSpaceGroup ==
  \/ SpaceGroupStep
  \/ GetParentsDefault
  \/ GetParentsList
  \/ GetParentsOwnState
  \/ IsCompatibleCall

SpecSpaceGroup == InitSpaceGroup /\ [][NextSpaceGroup]_vars

\* ----------------------------------------------------- CLatticeParameters
\* State values of the lattice-parameter cube are followed in quarters:
\* 0, 1, .. 4 stand for 0.0, 0.25, .. 1.0
StateValueDen == 4

\* CLatticeParameters.__init__: the defaults of the ranges
min_length == 1
max_length == 5
length_range == max_length - min_length
min_angle == 30
max_angle == 150
angle_range == max_angle - min_angle
lengths == <<"a", "b", "c">>
angles == <<"alpha", "beta", "gamma">>
parameters == lengths \o angles
LATTICE_SYSTEMS ==
  {"cubic", "hexagonal", "monoclinic", "orthorhombic", "rhombohedral",
   "tetragonal", "triclinic"}

InSeq(x, seq) == \E i \in 1 .. Len(seq) : seq[i] = x

\* CLatticeParameters._setup_constraints: n_dim, the index of each parameter
\* in the state (None when it has none) and the attributes alpha, beta,
\* gamma of the angles the lattice system fixes ("attrs" names the
\* attributes that exist)
_setup_constraints(lattice_system) ==
  LET len_part ==
        IF lattice_system \in {"cubic", "rhombohedral"}
        THEN [n_dim |-> 1, a |-> 0, b |-> 0, c |-> 0]
        ELSE IF lattice_system \in {"hexagonal", "tetragonal"}
        THEN [n_dim |-> 2, a |-> 0, b |-> 0, c |-> 1]
        ELSE [n_dim |-> 3, a |-> 0, b |-> 1, c |-> 2]
      n == len_part.n_dim
      idx(alpha, beta, gamma) ==
        [a |-> len_part.a, b |-> len_part.b, c |-> len_part.c,
         alpha |-> alpha, beta |-> beta, gamma |-> gamma]
  IN IF lattice_system \in {"cubic", "orthorhombic", "tetragonal"}
     THEN [n_dim |-> n, idx |-> idx(None, None, None),
           attrs |-> {"alpha", "beta", "gamma"},
           attr |-> [alpha |-> 90, beta |-> 90, gamma |-> 90]]
     ELSE IF lattice_system = "hexagonal"
     THEN [n_dim |-> n, idx |-> idx(None, None, None),
           attrs |-> {"alpha", "beta", "gamma"},
           attr |-> [alpha |-> 90, beta |-> 90, gamma |-> 120]]
     ELSE IF lattice_system = "monoclinic"
     THEN [n_dim |-> n + 1, idx |-> idx(None, n, None),
           attrs |-> {"alpha", "gamma"},
           attr |-> [alpha |-> 90, beta |-> 0, gamma |-> 90]]
     ELSE IF lattice_system = "rhombohedral"
     THEN [n_dim |-> n + 1, idx |-> idx(n, n, n),
           attrs |-> {},
           attr |-> [alpha |-> 0, beta |-> 0, gamma |-> 0]]
     ELSE [n_dim |-> n + 3, idx |-> idx(3, 4, 5),
           attrs |-> {},
           attr |-> [alpha |-> 0, beta |-> 0, gamma |-> 0]]

_statevalue2length(value) ==
  min_length + (value * length_range) \div StateValueDen
_length2statevalue(length) ==
  ((length - min_length) * StateValueDen) \div length_range
_statevalue2angle(value) ==
  min_angle + (value * angle_range) \div StateValueDen
_angle2statevalue(angle) ==
  ((angle - min_angle) * StateValueDen) \div angle_range

\* CLatticeParameters._get_index_of_param
_get_index_of_param(cons, param) == cons.idx[param]

\* CLatticeParameters._get_param(param): the attribute when there is one,
\* else the value of self.state at the index of the parameter (self_state is
\* self.state, a list indexed from 0)
_get_param(cons, self_state, param) ==
  IF param \in cons.attrs THEN cons.attr[param]
  ELSE IF InSeq(param, lengths)
    THEN _statevalue2length(self_state[_get_index_of_param(cons, param) + 1])
  ELSE _statevalue2angle(self_state[_get_index_of_param(cons, param) + 1])

\* CLatticeParameters._set_param(state, param, value): "if param_idx:" is
\* false for None and for the index 0
_set_param(cons, st, param, value) ==
  LET param_idx == _get_index_of_param(cons, param)
  IN IF param_idx # None /\ param_idx # 0
     THEN [st EXCEPT ![param_idx + 1] =
             IF InSeq(param, lengths) THEN _length2statevalue(value)
             ELSE _angle2statevalue(value)]
     ELSE st

\* CLatticeParameters._unpack_lengths_angles(state): the argument goes
\* through _get_state and is not used again; the parameters are read by
\* _get_param, from self.state
_unpack_lengths_angles(cons, self_state, st) ==
  [lengths |-> [i \in 1 .. 3 |-> _get_param(cons, self_state, lengths[i])],
   angles |-> [i \in 1 .. 3 |-> _get_param(cons, self_state, angles[i])]]

\* str(tuple): "(x1, x2, ..)"
StrOfTuple(items) ==
  <<Ch("(")>> \o StrItems([i \in 1 .. Len(items) |-> PyFloat(items[i])])
    \o <<Ch(")")>>

\* CLatticeParameters.state2readable(state): f"{lengths}, {angles}"
CLattice_state2readable(cons, self_state, st) ==
  LET u == _unpack_lengths_angles(cons, self_state, st)
  IN StrOfTuple(u.lengths) \o <<Ch(","), Ch(" ")>> \o StrOfTuple(u.angles)

\* float(value) of a piece of the string
FloatOf(chars) == chars[1].num

RECURSIVE SetParams(_, _, _, _)
SetParams(cons, st, values, i) ==
  IF i > Len(parameters) \/ i > Len(values) THEN st
  ELSE SetParams(cons, _set_param(cons, st, parameters[i], values[i]),
                 values, i + 1)

\* CLatticeParameters.readable2state(readable): the source with every
\* parameter set by _set_param
CLattice_readable2state(cons, readable) ==
  LET stripped ==
        StrReplace(StrReplace(StrReplace(readable, "(", <<>>), ")", <<>>),
                   " ", <<>>)
      pieces == StrSplit(stripped, ",")
      values == [i \in 1 .. Len(pieces) |-> FloatOf(pieces[i])]
  IN SetParams(cons, [i \in 1 .. cons.n_dim |-> 0], values, 1)

\* State values the lattice-parameter calls are made with: 0.0, 0.25, 1.0
CLatticeVals == {0, 1, StateValueDen}

InitCLattice ==
  /\ \E mv \in {One}, mi10 \in MinIncrTenths : CubeInit(mv, mi10)
  /\ state = source
  /\ done = FALSE
  /\ n_actions = 0
  /\ ret = NoRet
  /\ mask_call = NoMaskCall
  /\ call = NoCall
  /\ traj = NoTraj

\* env.readable2state(env.state2readable(s)) for an environment of a lattice
\* system whose state is s, the source or another state
CLatticeReadableCall ==
  /\ call.op = "none"
  /\ \E lattice_system \in LATTICE_SYSTEMS :
       LET cons == _setup_constraints(lattice_system)
           src == [i \in 1 .. cons.n_dim |-> 0]
       IN \E st \in [1 .. cons.n_dim -> CLatticeVals] :
            \E self_state \in {st, src, [i \in 1 .. cons.n_dim |-> 1]} :
              LET readable == CLattice_state2readable(cons, self_state, st)
              IN call' = [op |-> "clattice_readable",
                          lattice_system |-> lattice_system,
                          self_state |-> self_state, state |-> st,
                          readable |-> readable,
                          back |-> CLattice_readable2state(cons, readable)]
  /\ UNCHANGED <<config, state, done, n_actions, ret, mask_call, traj>>

NextCLattice == CLatticeReadableCall

SpecCLattice == InitCLattice /\ [][NextCLattice]_vars

\* ------------------------------------------------------------------ claims
\* Entries 0, 1 and 2 of a mask (Python indices) of the last mask call
Entry0 == mask_call.mask[1]
Entry1 == mask_call.mask[2]
Entry2 == mask_call.mask[3]
SomeBelowMinIncr == \E d \in Dims : FLt(mask_call.state[d], min_incr)

\* A coordinate lies in [0 - epsilon, max_val + epsilon]
InCube(x) == FLe(0 - step_epsilon, x) /\ FLe(x, max_val + step_epsilon)

\* C1 (as claimed): after any sequence of step and step_backwards calls from
\* the source, every coordinate of the state lies in
\* [0 - epsilon, max_val + epsilon].
C1_Claim == \A d \in Dims : InCube(state[d])

\* C2: the forward mask is [True, True, True] if and only if done is True.
C2_Thm ==
  mask_call.dir = "forward" =>
    ((Entry0 /\ Entry1 /\ Entry2) <=> mask_call.done)

C2_Witness ==
  mask_call.dir = "forward" /\ mask_call.done /\ Entry0 /\ Entry1 /\ Entry2

\* C3 (as claimed): for a state that is not done, entry 0 of the forward mask
\* is True if and only if some coordinate exceeds max_val - min_incr.
C3_Claim ==
  (mask_call.dir = "forward" /\ ~mask_call.done) =>
    (Entry0 <=> \E d \in Dims : FGt(mask_call.state[d], max_val - min_incr))

C5_Claim ==
  mask_call.dir = "backward" => (~Entry1 <=> SomeBelowMinIncr)

\* C5 (amended): for every state with done False, entry 1 of the backward
\* mask is False if and only if some coordinate is below min_incr; with done
\* True entry 1 is True whatever the coordinates are.
C5_Thm ==
  mask_call.dir = "backward" =>
    IF mask_call.done THEN Entry1 ELSE (~Entry1 <=> SomeBelowMinIncr)

C5_Witness ==
  /\ mask_call.dir = "backward" /\ ~mask_call.done
  /\ SomeBelowMinIncr /\ ~Entry1

\* C6: entry 2 of the backward mask is False if and only if done is True, and
\* when done is True every other entry of the backward mask is True.
C6_Thm ==
  mask_call.dir = "backward" =>
    /\ (~Entry2 <=> mask_call.done)
    /\ (mask_call.done => (Entry0 /\ Entry1))

C6_Witness ==
  /\ mask_call.dir = "backward" /\ mask_call.done
  /\ SomeBelowMinIncr /\ Entry0 /\ Entry1 /\ ~Entry2

\* C7: step called while done is True returns valid=False for every action,
\* EOS included, and leaves state, done and n_actions unchanged.
C7_Thm ==
  [][(done /\ ret'.op = "step") =>
       /\ ret'.outcome = "invalid"
       /\ state' = state /\ done' = done /\ n_actions' = n_actions]_vars

C7_Witness ==
  /\ ret.op = "step" /\ ret.was_done /\ ret.is_eos
  /\ ret.outcome = "invalid" /\ done

\* C8 (as claimed): step_backwards called with the EOS action while done is
\* False returns valid=False without raising.
C8_Claim ==
  (ret.op = "step_backwards" /\ ret.is_eos /\ ~ret.was_done) =>
    ret.outcome = "invalid"

\* C9: step with the EOS action from a not-done state that is not the source
\* sets done, leaves every coordinate unchanged and returns valid=True; from
\* the source EOS is not accepted and done stays False, so that done never
\* becomes True at the source.
C9_Thm ==
  [][/\ (~done /\ ret'.op = "step" /\ ret'.is_eos) =>
          IF state # source
          THEN done' /\ state' = state /\ ret'.outcome = "valid"
          ELSE ~done' /\ state' = state /\ ret'.outcome # "valid"
     /\ (~done /\ done') => state' # source]_vars

C9_Witness ==
  /\ ret.op = "step" /\ ret.is_eos /\ ~ret.was_done
  /\ ret.outcome = "valid" /\ done /\ state # source

\* C10: step_backwards on a done environment accepts only the EOS action,
\* for which it sets done to False and returns valid=True; whatever the
\* action, no backward step changes a coordinate while done is True.
C10_Thm ==
  [][(done /\ ret'.op = "step_backwards") =>
       /\ state' = state
       /\ IF ret'.is_eos
          THEN ~done' /\ ret'.outcome = "valid"
          ELSE done' /\ ret'.outcome = "raised"]_vars

C10_Witness ==
  /\ ret.op = "step_backwards" /\ ret.was_done /\ ret.is_eos
  /\ ret.outcome = "valid" /\ ~done /\ state # source

\* C11: undoing a forward trajectory (in-bounds increments from the source,
\* then EOS) with EOS and the same increments in reverse order never raises,
\* passes through the states of the forward trajectory and ends exactly at the
\* source with done False.
C11_Thm ==
  traj.phase = "backward" =>
    /\ ret.op = "step_backwards" /\ ret.outcome = "valid"
    /\ state = traj.expected
    /\ ~done
    /\ (traj.hist = <<>> => state = source)

C11_Witness ==
  /\ traj.phase = "backward" /\ traj.hist = <<>>
  /\ n_actions = 2 * MaxTrajLen + 2
  /\ state = source /\ ~done

\* The range a relative increment is scaled by in dimension d of the last
\* conversion call: max_val - x - m forward, x - m backward
CallRange(d) ==
  IF call.backward THEN call.states[d] - call.min
  ELSE max_val - call.states[d] - call.min

\* Dimension d of the last conversion call is one C14 speaks of: x in
\* (0, max_val) and r in (0, 1)
CallInterior(d) ==
  /\ call.states[d] > 0 /\ call.states[d] < max_val
  /\ call.rel[d].n > 0 /\ call.rel[d].n < call.rel[d].d

\* C14 (as claimed): for every x in (0, max_val), every minimum increment
\* (0 or min_incr) and every r in (0, 1), in both directions, converting r to
\* an absolute increment and back returns r.
C14_Claim ==
  call.op = "increments" =>
    \A d \in Dims : CallInterior(d) => call.rel_back[d] = call.rel[d]

\* C14 (amended): the same, for the x and m whose range is not zero
\* (max_val - x - m forward, x - m backward); with a zero range the
\* conversion back is 0/0 = NaN.
C14_Thm ==
  call.op = "increments" =>
    \A d \in Dims :
      CallInterior(d) =>
        IF CallRange(d) # 0 THEN call.rel_back[d] = call.rel[d]
        ELSE call.rel_back[d] = RelNaN

C14_Witness ==
  /\ call.op = "increments" /\ call.backward /\ call.min = min_incr
  /\ \A d \in Dims :
       /\ CallInterior(d) /\ CallRange(d) > 0
       /\ call.rel[d] = Frac(3, 4) /\ call.rel_back[d] = call.rel[d]

Scored ==
  /\ call.op = "sample"
  /\ call.passed = "sampled"
  /\ ~call.sampled.raised

\* C12: for a forward state whose mask allows a continuous action (entry 0
\* False), the absolute increment of the forward sampler lies in every
\* dimension within [min_incr, max_val - x], or [0, max_val - x] at the
\* source, so the step does not pass max_val.
C12_Claim ==
  (/\ call.op = "sample"
   /\ ~call.backward
   /\ ~call.mask[1]
   /\ call.sampled.branch = "increments") =>
    \A d \in Dims :
      /\ call.sampled.action[d] >=
           (IF call.states_from = source THEN 0 ELSE min_incr)
      /\ call.sampled.action[d] <= max_val - call.states_from[d]
      /\ call.states_from[d] + call.sampled.action[d] <= max_val

\* C16: get_logprobs is exactly 0.0 when the mask leaves one action: forward
\* with entry 0 True, backward with entry 1 False, backward with entry 2
\* False; whatever the policy outputs and the action passed.
C16_Thm ==
  (/\ call.op = "sample"
   /\ ~call.logprobs.raised
   /\ \/ ~call.backward /\ call.mask[1]
      \/ call.backward /\ ~call.mask[2]
      \/ call.backward /\ ~call.mask[3]) =>
    call.logprobs.logprobs = "zero"

C16_Witness ==
  /\ call.op = "sample"
  /\ ~call.backward /\ ~call.done /\ call.mask[1]
  /\ call.passed = "state"
  /\ call.logprobs.branch = "eos"
  /\ call.logprobs.logprobs = "zero"

\* C17: get_logprobs puts every action sample_actions_batch emits for the
\* same mask, state and direction into the branch the sampler took, with the
\* same minimum increments.
C17_Claim ==
  Scored =>
    /\ call.logprobs.branch = call.sampled.branch
    /\ call.logprobs.min_increments = call.sampled.min_increments

\* C19: the log probability of an action drawn by sample_actions_batch for
\* the same inputs is finite.
C19_Claim ==
  Scored => call.logprobs.logprobs \in {"zero", "finite"}

\* C13: a forward trajectory of sampled actions has no cycle: every non-EOS
\* action of the forward sampler is a valid step that strictly increases at
\* least one coordinate of the state it is applied to.
C13_Claim ==
  (/\ call.op = "sample_forward"
   /\ call.sampled.branch = "increments") =>
    /\ ret.outcome = "valid"
    /\ \E d \in Dims : state[d] > call.states_from[d]

\* C18: a backward action emitted where back-to-source is forced by the mask
\* or sampled equals the coordinates of the originating state, and
\* step_backwards with it leaves the environment at the source.
C18_Thm ==
  (/\ call.op = "sample_backward"
   /\ call.sampled.branch = "bts") =>
    /\ call.sampled.action = call.states_from
    /\ ret.op = "step_backwards"
    /\ ret.outcome = "valid"
    /\ state = source
    /\ ~done

C18_Witness ==
  /\ call.op = "sample_backward"
  /\ call.sampled.branch = "bts"
  /\ ~call.sampled.forced
  /\ call.states_from # source
  /\ call.sampled.action = call.states_from
  /\ state = source

\* C21: state2policy and statetorch2policy return values inside [-1, 1],
\* with a coordinate of 0 (or below) mapped to -1 and a coordinate of max_val
\* (or above) mapped to 1.
C21_Claim ==
  call.op = "state2policy" =>
    \A d \in Dims :
      /\ call.policy[d] >= 0 - One /\ call.policy[d] <= One
      /\ call.policy_torch[d] >= 0 - One /\ call.policy_torch[d] <= One
      /\ call.state[d] <= 0 =>
           call.policy[d] = 0 - One /\ call.policy_torch[d] = 0 - One
      /\ call.state[d] >= max_val =>
           call.policy[d] = One /\ call.policy_torch[d] = One

\* C22: readable2state(state2readable(s)) equals s.
C22_Claim ==
  call.op = "readable" =>
    /\ Len(call.back) = Len(call.state)
    /\ \A i \in 1 .. Len(call.state) : PyEq(call.back[i], call.state[i])

\* The last call was SpaceGroup.step and nothing was called since
StepReturned == call.op = "none" /\ ret.op = "SpaceGroup.step"

\* C23: SpaceGroup.step raises for an action outside the action space and
\* returns valid=False for an action the forward mask marks invalid, every
\* action of a done environment included; in both cases state, done and
\* n_actions are unchanged.
C23_Thm ==
  StepReturned =>
    LET m == SpaceGroup_get_mask_invalid_actions_forward(ret.before,
                                                         ret.was_done)
    IN /\ ret.action \notin SpaceGroup_action_space => ret.outcome = "raised"
       /\ (/\ ret.action \in SpaceGroup_action_space
           /\ ~m.raised
           /\ m.mask[ret.action]) => ret.outcome = "invalid"
       /\ (ret.action \in SpaceGroup_action_space /\ ret.was_done) =>
            ret.outcome = "invalid"
       /\ ret.outcome \in {"raised", "invalid"} =>
            /\ state = ret.before
            /\ done = ret.was_done
            /\ n_actions = ret.n_before

C23_Witness ==
  /\ StepReturned
  /\ ret.outcome = "invalid"
  /\ ~ret.was_done
  /\ ret.before # SpaceGroup_source
  /\ ret.action # SpaceGroup_eos
  /\ state = ret.before /\ n_actions = ret.n_before /\ n_actions > 0

\* C27: after a valid SpaceGroup.step(action) the action is among the
\* actions get_parents() returns for the resulting state, paired with the
\* state before the step (for EOS, with the state itself).
C27_Thm ==
  (StepReturned /\ ret.outcome = "valid") =>
    LET p == SpaceGroup_get_parents(state, done)
    IN \E k \in 1 .. Len(p.actions) :
         /\ p.actions[k] = ret.action
         /\ p.parents[k] = ret.before

C27_Witness ==
  /\ StepReturned
  /\ ret.outcome = "valid"
  /\ ret.action[1] = Prop_SG
  /\ get_state_type(ret.before) = 1
  /\ state[3] # 0

\* C28: _is_compatible(cls, ps) is True exactly when some space group is
\* compatible with the composition, belongs to cls when cls is given and to
\* ps when ps is given.
C28_Claim ==
  call.op = "_is_compatible" =>
    (call.result <=>
       \E sg \in DOMAIN space_groups :
         /\ n_atoms_compatibility_dict[sg]
         /\ call.cls # None =>
              sg \in crystal_lattice_systems[call.cls].space_groups
         /\ call.ps # None =>
              sg \in point_symmetries[call.ps].space_groups)

\* C30: get_parents changes neither the list passed as state nor the state
\* of the environment.
C30_Claim ==
  call.op = "get_parents" =>
    /\ call.arg_after = call.arg_before
    /\ state = call.env_before

\* C29: CLatticeParameters.state2readable(state) renders the lengths and
\* angles encoded by the state passed, and readable2state of the result
\* returns that state, index 0 included.
C29_Claim ==
  call.op = "clattice_readable" =>
    LET cons == _setup_constraints(call.lattice_system)
        expected == _unpack_lengths_angles(cons, call.state, call.state)
    IN /\ call.readable =
            StrOfTuple(expected.lengths) \o <<Ch(","), Ch(" ")>>
              \o StrOfTuple(expected.angles)
       /\ call.back = call.state

\* C24: for every configuration the constructor accepts, the forward mask of
\* the source that is not done has entry 0 False, and neither the forward
\* sampler nor _get_logprobs_forward fails its assertion on that mask.
C24_Claim ==
  (/\ call.op = "sample"
   /\ ~call.backward
   /\ ~call.done
   /\ call.states_from = source) =>
    /\ ~call.mask[1]
    /\ ~call.sampled.raised
    /\ ~call.logprobs.raised

\* C25: the backward mask has exactly one False entry: entry 2 when done,
\* else entry 1 when some coordinate is below min_incr, else entry 0; the
\* backward sampler accordingly undoes EOS, is forced back to the source, or
\* chooses between back-to-source and a continuous decrement.
C25_Thm ==
  (call.op = "sample" /\ call.backward) =>
    LET below == \E d \in Dims : FLt(call.states_from[d], min_incr)
    IN /\ Cardinality({i \in 1 .. 3 : ~call.mask[i]}) = 1
       /\ IF call.done THEN ~call.mask[3]
          ELSE IF below THEN ~call.mask[2]
          ELSE ~call.mask[1]
       /\ IF call.done THEN call.sampled.branch = "eos"
          ELSE IF below
            THEN call.sampled.branch = "bts" /\ call.sampled.forced
          ELSE /\ call.sampled.branch \in {"bts", "increments"}
               /\ ~call.sampled.forced

C25_Witness ==
  /\ call.op = "sample" /\ call.backward /\ ~call.done
  /\ \A d \in Dims : call.states_from[d] >= min_incr
  /\ call.mask = <<FALSE, TRUE, TRUE>>
  /\ call.sampled.branch = "increments"

\* C26: in every state reachable from the source by step and step_backwards
\* calls, done = True implies that the state is not the source.
C26_Thm == done => state # source

C26_Witness ==
  /\ done /\ state # source
  /\ ret.op = "step" /\ ret.is_eos /\ ret.outcome = "valid"

====
